---- MODULE Spec2Model ----
(***************************************************************************)
(* Model of custom_components/x720/sensor.py: the X720 fuel-gauge driver   *)
(* (X720), its caching handler (X720Handler), the platform setup           *)
(* (_setup_x720, async_setup_platform) and the polling entities            *)
(* (X720Sensor.async_update).                                              *)
(*                                                                         *)
(* Python values are records [tag, num, den]: None, False, or a float held *)
(* as an exact fraction num/den in lowest terms.                           *)
(***************************************************************************)
EXTENDS Integers, Sequences, FiniteSets, TLC

\* ------------------------------------------------------------------ values
WordMax == 65535

DEFAULT_I2C_ADDRESS == 54

\* self.i2c_addr, the address every read_word_data is given.
i2c_addr == DEFAULT_I2C_ADDRESS

SENSOR_VOLTAGE == "voltage"
SENSOR_CAPACITY == "capacity"
SENSOR_TYPES == {SENSOR_VOLTAGE, SENSOR_CAPACITY}
DEFAULT_MONITORED == {SENSOR_VOLTAGE, SENSOR_CAPACITY}

\* Words the bus transport delivers in the state machine, the first MaxWords
\* of: 0x0000, 0x800C (byte swap 0x0C80 = 3200), 0x0032 (byte swap
\* 0x3200 = 12800) and 0x0018 (byte swap 0x1800 = 6144).
MaxWords == 2
SampleWords == <<0, 32780, 50, 24>>
RawWords == {SampleWords[i] : i \in 1..MaxWords}

None == [tag |-> "None", num |-> 0, den |-> 1]
False == [tag |-> "bool", num |-> 0, den |-> 1]

RECURSIVE Gcd(_, _)
Gcd(a, b) == IF b = 0 THEN a ELSE Gcd(b, a % b)

Float(n, d) == LET g == Gcd(n, d) IN [tag |-> "float", num |-> n \div g, den |-> d \div g]

IsFloat(x) == x.tag = "float"

\* Python truthiness of None, False and floats.
Falsy(x) == x.tag = "None" \/ x.tag = "bool" \/ (x.tag = "float" /\ x.num = 0)

\* ------------------------------------------------------------- conversion
\* struct.pack(">H", read): two bytes, most significant first.
PackBE(read) == <<read \div 256, read % 256>>

UnpackLE_BigEndian(b) == b[1] * 256 + b[2]

\* struct.unpack("<H", bytes)[0]: first byte is the least significant.
UnpackLE(b) == b[1] + b[2] * 256

Swap(read) == UnpackLE(PackBE(read))

VoltageOf_NoDiv16(read) == Float(Swap(read) * 5, 4 * 1000)

\* swapped * 1.25 / 1000 / 16
VoltageOf(read) == Float(Swap(read) * 5, 4 * 1000 * 16)

CapacityOf_Clamped(read) ==
    IF Swap(read) > 100 * 256 THEN Float(100, 1) ELSE Float(Swap(read), 256)

\* swapped / 256
CapacityOf(read) == Float(Swap(read), 256)

\* The voltages n/20 that lie halfway between two tenths and are no double:
\* the numerators n for which the double holding the voltage lies above n/20.
DoubleAboveTie == {1, 9, 11, 13, 21, 27, 31, 37, 47, 49, 57, 59, 67, 69, 77,
                   79, 83, 89, 93, 99}

\* round(x, 1) of a float held as a fraction: the nearest tenth.  A value
\* halfway between two tenths that is a double (denominator 4) goes to the
\* even tenth; one that is no double (denominator 20) goes where the double
\* nearest to it lies.
Round1(x) ==
    LET q == (x.num * 10) \div x.den
        r == (x.num * 10) % x.den
        tieUp == IF x.den = 20 THEN x.num \in DoubleAboveTie ELSE q % 2 = 1
        up == (2 * r > x.den) \/ (2 * r = x.den /\ tieUp)
    IN Float(IF up THEN q + 1 ELSE q, 10)

\* ------------------------------------------------------------------ state
VARIABLES
    pc,          \* position of async_setup_platform / _setup_x720
    result,      \* outcome of _setup_x720
    data,        \* X720.data (FieldData): voltage, capacity
    sensor_data, \* X720Handler.sensor_data (SensorData): voltage, capacity
    log,         \* bus transactions and the sleep performed by the setup
    allZero,     \* every voltage read of the setup so far delivered 0
    entities,    \* X720Sensor entities handed to async_add_entities
    tpc,         \* position of each entity's async_update
    mine,        \* the pair converted from the words read by a running update
    state,       \* X720Sensor._state of each entity
    prevCache,   \* sensor_data when the most recent update was entered
    succeeded,   \* some update has run to completion
    conv,        \* conversion of one raw word, for the pure-function checks
    plog         \* bus transactions of each entity's latest update

vars == <<pc, result, data, sensor_data, log, allZero, entities, tpc, mine,
          state, prevCache, succeeded, conv, plog>>

NoPair == [voltage |-> None, capacity |-> None]

Idle == [t \in SENSOR_TYPES |-> "idle"]

InitCommon ==
    /\ pc = "start"
    /\ result = "pending"
    /\ data = [voltage |-> False, capacity |-> None]
    /\ sensor_data = NoPair
    /\ log = <<>>
    /\ allZero = TRUE
    /\ entities = {}
    /\ tpc = Idle
    /\ mine = [t \in SENSOR_TYPES \cup {"setup"} |-> NoPair]
    /\ state = [t \in SENSOR_TYPES |-> None]
    /\ prevCache = NoPair
    /\ succeeded = FALSE
    /\ plog = [t \in SENSOR_TYPES |-> <<>>]

NoConv == [read |-> 0, swapped |-> 0, again |-> 0, voltage |-> None,
           capacity |-> None, done |-> FALSE]

Init == InitCommon /\ conv = NoConv

\* ------------------------------------------------------- X720 (the driver)
\* get_sensor_data, first half: read register 2, swap, scale, store.
StoreVoltage(d, read) == [d EXCEPT !.voltage = VoltageOf(read)]

\* get_sensor_data, second half: read register 4, swap, scale, store.
StoreCapacity(d, read) == [d EXCEPT !.capacity = CapacityOf(read)]

\* self._i2c.read_word_data(self.i2c_addr, reg), returning or raising.
BusRead(reg, ok) == [addr |-> i2c_addr, reg |-> reg, ok |-> ok]

\* ------------------------------------------------- _setup_x720 (the setup)
\* bus = SMBus(config.get(CONF_I2C_BUS)): opening the bus may raise IOError,
\* which the try block turns into "not detected".
OpenBus ==
    /\ pc = "start"
    /\ \/ /\ pc' = "ctor2"
          /\ UNCHANGED result
       \/ /\ pc' = "returned"
          /\ result' = "not_detected"
    /\ UNCHANGED <<data, sensor_data, log, allZero, entities, tpc, mine,
                   state, prevCache, succeeded, conv, plog>>

CtorRead2_NoProbe ==
    /\ pc = "ctor2"
    /\ pc' = "new_handler"
    /\ UNCHANGED <<result, data, sensor_data, log, allZero, entities, tpc,
                   mine, state, prevCache, succeeded, conv, plog>>

\* X720.__init__ calls get_sensor_data: read of register 2.  An IOError is
\* caught by the try block of _setup_x720.
CtorRead2 ==
    /\ pc = "ctor2"
    /\ \/ \E w \in RawWords :
             /\ data' = StoreVoltage(data, w)
             /\ log' = Append(log, "read2")
             /\ allZero' = (allZero /\ w = 0)
             /\ pc' = "ctor4"
             /\ UNCHANGED result
       \/ /\ log' = Append(log, "fail2")
          /\ pc' = "returned"
          /\ result' = "not_detected"
          /\ UNCHANGED <<data, allZero>>
    /\ UNCHANGED <<sensor_data, entities, tpc, mine, state, prevCache,
                   succeeded, conv, plog>>

\* X720.__init__ calls get_sensor_data: read of register 4.
CtorRead4 ==
    /\ pc = "ctor4"
    /\ \/ \E w \in RawWords :
             /\ data' = StoreCapacity(data, w)
             /\ log' = Append(log, "read4")
             /\ pc' = "new_handler"
             /\ UNCHANGED result
       \/ /\ log' = Append(log, "fail4")
          /\ pc' = "returned"
          /\ result' = "not_detected"
          /\ UNCHANGED data
    /\ UNCHANGED <<sensor_data, allZero, entities, tpc, mine, state,
                   prevCache, succeeded, conv, plog>>

\* X720Handler.__init__: a fresh SensorData, then update(first_read=True).
NewHandler ==
    /\ pc = "new_handler"
    /\ sensor_data' = NoPair
    /\ prevCache' = NoPair
    /\ pc' = "throw2"
    /\ UNCHANGED <<result, data, log, allZero, entities, tpc, mine, state,
                   succeeded, conv, plog>>

\* A bus read made by update() while the setup runs it.  Nothing catches an
\* IOError here: it leaves _setup_x720 as an exception.
SetupRead(here, next, reg) ==
    /\ pc = here
    /\ \/ \E w \in RawWords :
             /\ data' = IF reg = 2 THEN StoreVoltage(data, w)
                                   ELSE StoreCapacity(data, w)
             /\ mine' = [mine EXCEPT !["setup"] =
                            IF reg = 2 THEN [voltage |-> VoltageOf(w), capacity |-> None]
                                       ELSE [@ EXCEPT !.capacity = CapacityOf(w)]]
             /\ log' = Append(log, IF reg = 2 THEN "read2" ELSE "read4")
             /\ allZero' = (allZero /\ (reg = 2 => w = 0))
             /\ pc' = next
             /\ UNCHANGED result
       \/ /\ log' = Append(log, IF reg = 2 THEN "fail2" ELSE "fail4")
          /\ pc' = "raised"
          /\ result' = "raised"
          /\ UNCHANGED <<data, mine, allZero>>
    /\ UNCHANGED <<sensor_data, entities, tpc, state, prevCache, succeeded,
                   conv, plog>>

\* update(first_read=True): the throwaway get_sensor_data.
ThrowRead2 == SetupRead("throw2", "throw4", 2)
ThrowRead4 == SetupRead("throw4", "real2", 4)

\* update(first_read=True): the get_sensor_data whose result is tested.
RealRead2 == SetupRead("real2", "real4", 2)
RealRead4 == SetupRead("real4", "copy_v", 4)

SetupCopyVoltage_SkipFalsy ==
    /\ pc = "copy_v"
    /\ sensor_data' = IF Falsy(data.voltage) THEN sensor_data
                      ELSE [sensor_data EXCEPT !.voltage = data.voltage]
    /\ pc' = "copy_c"
    /\ UNCHANGED <<result, data, log, allZero, entities, tpc, mine, state,
                   prevCache, succeeded, conv, plog>>

\* self.sensor_data.voltage = self._sensor.data.voltage
SetupCopyVoltage ==
    /\ pc = "copy_v"
    /\ sensor_data' = [sensor_data EXCEPT !.voltage = data.voltage]
    /\ pc' = "copy_c"
    /\ UNCHANGED <<result, data, log, allZero, entities, tpc, mine, state,
                   prevCache, succeeded, conv, plog>>

\* self.sensor_data.capacity = self._sensor.data.capacity
SetupCopyCapacity ==
    /\ pc = "copy_c"
    /\ sensor_data' = [sensor_data EXCEPT !.capacity = data.capacity]
    /\ succeeded' = TRUE
    /\ pc' = "sleep"
    /\ UNCHANGED <<result, data, log, allZero, entities, tpc, mine, state,
                   prevCache, conv, plog>>

\* sleep(0.5)  # Wait for device to stabilize
Sleep ==
    /\ pc = "sleep"
    /\ log' = Append(log, "sleep")
    /\ pc' = "check"
    /\ UNCHANGED <<result, data, sensor_data, allZero, entities, tpc, mine,
                   state, prevCache, succeeded, conv, plog>>

\* if not sensor_handler.sensor_data.voltage: return None
\* return sensor_handler
CheckVoltage ==
    /\ pc = "check"
    /\ result' = IF Falsy(sensor_data.voltage) THEN "init_failed" ELSE "handler"
    /\ pc' = "returned"
    /\ UNCHANGED <<data, sensor_data, log, allZero, entities, tpc, mine,
                   state, prevCache, succeeded, conv, plog>>

\* ------------------------------------------------- async_setup_platform
AddEntities_NoCheck ==
    /\ pc = "returned"
    /\ entities' = DEFAULT_MONITORED
    /\ pc' = "done"
    /\ UNCHANGED <<result, data, sensor_data, log, allZero, tpc, mine, state,
                   prevCache, succeeded, conv, plog>>

\* if sensor_handler is None: return; otherwise one X720Sensor per
\* monitored condition is handed to async_add_entities.
AddEntities ==
    /\ pc = "returned"
    /\ entities' = IF result = "handler" THEN DEFAULT_MONITORED ELSE {}
    /\ pc' = "done"
    /\ UNCHANGED <<result, data, sensor_data, log, allZero, tpc, mine, state,
                   prevCache, succeeded, conv, plog>>

\* ------------------------------------------- X720Sensor.async_update (poll)
\* await self.hass.async_add_job(self.x720_client.update): the update is
\* entered on an executor thread.
StartUpdate(e) ==
    /\ e \in entities
    /\ tpc[e] = "idle"
    /\ tpc' = [tpc EXCEPT ![e] = "read2"]
    /\ prevCache' = sensor_data
    /\ plog' = [plog EXCEPT ![e] = <<>>]
    /\ UNCHANGED <<pc, result, data, sensor_data, log, allZero, entities,
                   mine, state, succeeded, conv>>

\* The same, when the host runs one poll at a time.
StartUpdateSeq(e) ==
    /\ \A o \in SENSOR_TYPES : tpc[o] = "idle"
    /\ StartUpdate(e)

PollRead2_CopiesEarly(e) ==
    /\ tpc[e] = "read2"
    /\ \/ \E w \in RawWords :
             /\ data' = StoreVoltage(data, w)
             /\ sensor_data' = [sensor_data EXCEPT !.voltage = VoltageOf(w)]
             /\ mine' = [mine EXCEPT ![e] = [voltage |-> VoltageOf(w), capacity |-> None]]
             /\ tpc' = [tpc EXCEPT ![e] = "read4"]
             /\ plog' = [plog EXCEPT ![e] = Append(@, BusRead(2, TRUE))]
       \/ /\ tpc' = [tpc EXCEPT ![e] = "idle"]
          /\ plog' = [plog EXCEPT ![e] = Append(@, BusRead(2, FALSE))]
          /\ UNCHANGED <<data, mine, sensor_data>>
    /\ UNCHANGED <<pc, result, log, allZero, entities, state,
                   prevCache, succeeded, conv>>

PollRead2_ContinuesAfterError(e) ==
    /\ tpc[e] = "read2"
    /\ \/ \E w \in RawWords :
             /\ data' = StoreVoltage(data, w)
             /\ mine' = [mine EXCEPT ![e] = [voltage |-> VoltageOf(w), capacity |-> None]]
             /\ plog' = [plog EXCEPT ![e] = Append(@, BusRead(2, TRUE))]
       \/ /\ plog' = [plog EXCEPT ![e] = Append(@, BusRead(2, FALSE))]
          /\ UNCHANGED <<data, mine>>
    /\ tpc' = [tpc EXCEPT ![e] = "read4"]
    /\ UNCHANGED <<pc, result, sensor_data, log, allZero, entities, state,
                   prevCache, succeeded, conv>>

\* update() -> get_sensor_data: read of register 2.  An IOError ends the
\* update and the async_update that awaits it.
PollRead2(e) ==
    /\ tpc[e] = "read2"
    /\ \/ \E w \in RawWords :
             /\ data' = StoreVoltage(data, w)
             /\ mine' = [mine EXCEPT ![e] = [voltage |-> VoltageOf(w), capacity |-> None]]
             /\ tpc' = [tpc EXCEPT ![e] = "read4"]
             /\ plog' = [plog EXCEPT ![e] = Append(@, BusRead(2, TRUE))]
       \/ /\ tpc' = [tpc EXCEPT ![e] = "idle"]
          /\ plog' = [plog EXCEPT ![e] = Append(@, BusRead(2, FALSE))]
          /\ UNCHANGED <<data, mine>>
    /\ UNCHANGED <<pc, result, sensor_data, log, allZero, entities, state,
                   prevCache, succeeded, conv>>

PollRead4_ClearsOnError(e) ==
    /\ tpc[e] = "read4"
    /\ \/ \E w \in RawWords :
             /\ data' = StoreCapacity(data, w)
             /\ mine' = [mine EXCEPT ![e].capacity = CapacityOf(w)]
             /\ tpc' = [tpc EXCEPT ![e] = "copy_v"]
             /\ plog' = [plog EXCEPT ![e] = Append(@, BusRead(4, TRUE))]
             /\ UNCHANGED sensor_data
       \/ /\ tpc' = [tpc EXCEPT ![e] = "idle"]
          /\ plog' = [plog EXCEPT ![e] = Append(@, BusRead(4, FALSE))]
          /\ mine' = [mine EXCEPT ![e] = NoPair]
          /\ sensor_data' = NoPair
          /\ UNCHANGED data
    /\ UNCHANGED <<pc, result, log, allZero, entities, state,
                   prevCache, succeeded, conv>>

\* update() -> get_sensor_data: read of register 4.
PollRead4(e) ==
    /\ tpc[e] = "read4"
    /\ \/ \E w \in RawWords :
             /\ data' = StoreCapacity(data, w)
             /\ mine' = [mine EXCEPT ![e].capacity = CapacityOf(w)]
             /\ tpc' = [tpc EXCEPT ![e] = "copy_v"]
             /\ plog' = [plog EXCEPT ![e] = Append(@, BusRead(4, TRUE))]
       \/ /\ tpc' = [tpc EXCEPT ![e] = "idle"]
          /\ plog' = [plog EXCEPT ![e] = Append(@, BusRead(4, FALSE))]
          /\ mine' = [mine EXCEPT ![e] = NoPair]
          /\ UNCHANGED data
    /\ UNCHANGED <<pc, result, sensor_data, log, allZero, entities, state,
                   prevCache, succeeded, conv>>

CopyVoltage_KeepsStale(e) ==
    /\ tpc[e] = "copy_v"
    /\ tpc' = [tpc EXCEPT ![e] = "copy_c"]
    /\ UNCHANGED <<pc, result, data, sensor_data, log, allZero, entities, mine,
                   state, prevCache, succeeded, conv, plog>>

\* self.sensor_data.voltage = self._sensor.data.voltage
CopyVoltage(e) ==
    /\ tpc[e] = "copy_v"
    /\ sensor_data' = [sensor_data EXCEPT !.voltage = data.voltage]
    /\ tpc' = [tpc EXCEPT ![e] = "copy_c"]
    /\ UNCHANGED <<pc, result, data, log, allZero, entities, mine, state,
                   prevCache, succeeded, conv, plog>>

\* self.sensor_data.capacity = self._sensor.data.capacity
CopyCapacity(e) ==
    /\ tpc[e] = "copy_c"
    /\ sensor_data' = [sensor_data EXCEPT !.capacity = data.capacity]
    /\ succeeded' = TRUE
    /\ tpc' = [tpc EXCEPT ![e] = "state"]
    /\ UNCHANGED <<pc, result, data, log, allZero, entities, mine, state,
                   prevCache, conv, plog>>

SetState_ReadsBus(e) ==
    /\ tpc[e] = "state"
    /\ \E w \in RawWords : data' = StoreVoltage(data, w)
    /\ state' = IF IsFloat(sensor_data[e])
                THEN [state EXCEPT ![e] = Round1(sensor_data[e])]
                ELSE state
    /\ mine' = [mine EXCEPT ![e] = NoPair]
    /\ tpc' = [tpc EXCEPT ![e] = "idle"]
    /\ UNCHANGED <<pc, result, sensor_data, log, allZero, entities,
                   prevCache, succeeded, conv, plog>>

SetState_NoRound(e) ==
    /\ tpc[e] = "state"
    /\ state' = IF IsFloat(sensor_data[e])
                THEN [state EXCEPT ![e] = sensor_data[e]]
                ELSE state
    /\ mine' = [mine EXCEPT ![e] = NoPair]
    /\ tpc' = [tpc EXCEPT ![e] = "idle"]
    /\ UNCHANGED <<pc, result, data, sensor_data, log, allZero, entities,
                   prevCache, succeeded, conv, plog>>

\* self._state = round(self.x720_client.sensor_data.<type>, 1); round() of
\* None raises TypeError and leaves _state as it was.
SetState(e) ==
    /\ tpc[e] = "state"
    /\ state' = IF IsFloat(sensor_data[e])
                THEN [state EXCEPT ![e] = Round1(sensor_data[e])]
                ELSE state
    /\ mine' = [mine EXCEPT ![e] = NoPair]
    /\ tpc' = [tpc EXCEPT ![e] = "idle"]
    /\ UNCHANGED <<pc, result, data, sensor_data, log, allZero, entities,
                   prevCache, succeeded, conv, plog>>

\* --------------------------------------------------------- specifications
Setup ==
    \/ OpenBus \/ CtorRead2 \/ CtorRead4 \/ NewHandler
    \/ ThrowRead2 \/ ThrowRead4 \/ RealRead2 \/ RealRead4
    \/ SetupCopyVoltage \/ SetupCopyCapacity
    \/ Sleep \/ CheckVoltage \/ AddEntities

Poll(e) ==
    \/ PollRead2(e) \/ PollRead4(e)
    \/ CopyVoltage(e) \/ CopyCapacity(e) \/ SetState(e)

\* Polls of the two entities run on executor threads and may overlap.
Next ==
    \/ Setup
    \/ \E e \in SENSOR_TYPES : StartUpdate(e) \/ Poll(e)

Spec == Init /\ [][Next]_vars

\* One caller at a time: a poll starts only when no other poll is running.
SeqNext ==
    \/ Setup
    \/ \E e \in SENSOR_TYPES : StartUpdateSeq(e) \/ Poll(e)

SeqSpec == Init /\ [][SeqNext]_vars

\* The conversion of every 16-bit word: swapped = unpack("<H", pack(">H", read)),
\* and what get_sensor_data stores when the word comes from register 2 or 4.
ConvInit ==
    /\ InitCommon
    /\ conv \in {[NoConv EXCEPT !.read = w] : w \in 0..WordMax}

Convert ==
    /\ ~conv.done
    /\ conv' = [read |-> conv.read,
                swapped |-> Swap(conv.read),
                again |-> Swap(Swap(conv.read)),
                voltage |-> StoreVoltage(data, conv.read).voltage,
                capacity |-> StoreCapacity(data, conv.read).capacity,
                done |-> TRUE]
    /\ UNCHANGED <<pc, result, data, sensor_data, log, allZero, entities, tpc,
                   mine, state, prevCache, succeeded, plog>>

ConvSpec == ConvInit /\ [][Convert]_vars

\* ------------------------------------------------------------- properties
AllIdle == \A e \in SENSOR_TYPES : tpc[e] = "idle"

HasFail == \E i \in 1..Len(log) : log[i] \in {"fail2", "fail4"}

\* C1: a refresh that ends in a bus error, whether the read of register 2 or
\* the read of register 4 raised it, leaves the cached reading exactly as it
\* was when that refresh was entered (callers take turns).
C1_FailedRefreshKeepsCache ==
    [][ /\ (\E e \in SENSOR_TYPES :
               tpc[e] \in {"read2", "read4"} /\ tpc'[e] = "idle")
           => sensor_data' = prevCache
        /\ (pc \in {"throw2", "throw4", "real2", "real4"} /\ pc' = "raised")
           => sensor_data' = prevCache ]_vars

\* A poll whose register-4 read failed after its register-2 read had stored
\* a different voltage in the driver, with the cache still as it was.
C1_Witness ==
    /\ entities # {}
    /\ AllIdle
    /\ IsFloat(sensor_data.voltage)
    /\ data.voltage # sensor_data.voltage
    /\ sensor_data = prevCache

\* C2: when the setup tests the voltage, some read came before the delay
\* and the tested reading was read from the bus after the delay.
C2_Original ==
    result \in {"handler", "init_failed"} =>
        \E i, j, k \in 1..Len(log) :
            /\ i < j /\ j < k
            /\ log[i] \in {"read2", "fail2"}
            /\ log[j] = "sleep"
            /\ log[k] = "read2"

\* C3: a failure of the first bus access does not decide the setup: the
\* setup has an outcome only once the real read has been made.
C3_Original ==
    (Len(log) > 0 /\ log[1] = "fail2" /\ result # "pending") => Len(log) >= 5

\* C4 as stated: when every voltage read of the setup delivered 0 and the
\* setup failed, the cache is still (None, None).
C4_Original ==
    (result = "init_failed" /\ allZero) => sensor_data = NoPair

\* C4 as amended: when every voltage read of the setup delivered 0 the setup
\* fails, and at that moment the cache is not None: it holds the voltage 0.0
\* and the capacity converted from the last register-4 read.
C4_ZeroVoltageFailsWithZeroCached ==
    /\ (allZero /\ pc \in {"returned", "done"} /\ Len(log) = 7)
          => result = "init_failed"
    /\ result = "init_failed" =>
          /\ sensor_data.voltage = Float(0, 1)
          /\ IsFloat(sensor_data.capacity)
          /\ sensor_data = mine["setup"]

C4_Witness == result = "init_failed" /\ allZero /\ pc = "done"

\* C5: after a failed setup no entity exists and no poll ever runs; every
\* entity and every running poll follows a setup that returned the handler.
C5_FailedSetupNeverPolls ==
    /\ result \in {"not_detected", "init_failed", "raised"} =>
          /\ entities = {}
          /\ AllIdle
          /\ \A e \in SENSOR_TYPES : state[e] = None
    /\ (entities # {} \/ ~AllIdle) => (result = "handler" /\ pc = "done")

C5_Witness == pc = "done" /\ result = "init_failed" /\ entities = {}

\* C6: a None in the cache means no refresh has completed yet, and a cached
\* voltage or capacity that is set is never None again.
C6_CacheNeverRevertsToNone ==
    /\ []((sensor_data.voltage = None \/ sensor_data.capacity = None)
             => ~succeeded)
    /\ [][ /\ sensor_data.voltage # None => sensor_data'.voltage # None
           /\ sensor_data.capacity # None => sensor_data'.capacity # None ]_vars

\* The cache is set and a later poll has failed after its register-2 read.
C6_Witness ==
    /\ succeeded
    /\ pc = "done"
    /\ AllIdle
    /\ IsFloat(sensor_data.voltage) /\ IsFloat(sensor_data.capacity)
    /\ data.voltage # sensor_data.voltage

\* C7: once entities poll, every change of the cache installs the pair
\* converted from the two reads of the refresh that makes the change.
C7_Original ==
    [][ (pc = "done" /\ sensor_data' # sensor_data)
           => \E e \in SENSOR_TYPES : tpc[e] # "idle" /\ sensor_data' = mine[e] ]_vars

\* C8 as stated: the constructor returns without any bus transaction, and
\* "not detected" never comes from the constructor.
C8_Original ==
    /\ pc = "new_handler" => log = <<>>
    /\ result = "not_detected" => log = <<>>

\* C8 as amended: the constructor reads register 2 and then register 4 and
\* stores both conversions; it fails exactly when one of the two raises.
C8_ConstructorProbesDevice ==
    /\ pc = "new_handler" =>
          /\ log = <<"read2", "read4">>
          /\ IsFloat(data.voltage) /\ IsFloat(data.capacity)
    /\ (result = "not_detected" /\ log # <<>>) =>
          log \in {<<"fail2">>, <<"read2", "fail4">>}

C8_Witness == pc = "new_handler" /\ Len(log) = 2

\* C9: a bus error in any read of the setup makes _setup_x720 return None.
C9_Original ==
    HasFail => result \in {"pending", "not_detected", "init_failed"}

\* C10: the byte swap is its own inverse and exchanges the two bytes, for
\* every 16-bit word.
C10_SwapInvolution ==
    conv.done =>
        /\ conv.again = conv.read
        /\ conv.swapped = (conv.read % 256) * 256 + (conv.read \div 256)

C10_Witness == conv.done /\ conv.read = 32780 /\ conv.swapped = 3200

\* The byte swap of the word under conversion, written out on its two bytes.
Swapped(w) == (w % 256) * 256 + (w \div 256)

\* C11: for every raw word read from register 2 the stored voltage is
\* v * 1.25 / 1000 / 16 with v the byte swap of the word, that is
\* voltage * 12800 = v, neither clamped nor rounded; the word 0x0000 gives 0
\* and a word whose byte swap is 3200 gives 0.25.
C11_VoltageScaling ==
    conv.done =>
        /\ IsFloat(conv.voltage)
        /\ conv.voltage.num * 12800 = Swapped(conv.read) * conv.voltage.den
        /\ conv.read = 0 => conv.voltage = [tag |-> "float", num |-> 0, den |-> 1]
        /\ Swapped(conv.read) = 3200
              => conv.voltage = [tag |-> "float", num |-> 1, den |-> 4]

C11_Witness ==
    /\ conv.done
    /\ Swapped(conv.read) = 3200
    /\ conv.voltage.num = 1 /\ conv.voltage.den = 4

\* C12: for every raw word read from register 4 the stored capacity is
\* v / 256 with v the byte swap of the word, that is capacity * 256 = v,
\* neither clamped to 0..100 nor rounded; v = 12800 gives 50.
C12_CapacityScaling ==
    conv.done =>
        /\ IsFloat(conv.capacity)
        /\ conv.capacity.num * 256 = Swapped(conv.read) * conv.capacity.den
        /\ Swapped(conv.read) = 12800
              => conv.capacity = [tag |-> "float", num |-> 50, den |-> 1]

C12_Witness ==
    /\ conv.done
    /\ Swapped(conv.read) = 12800
    /\ conv.capacity.num = 50 /\ conv.capacity.den = 1

Read2Ok == BusRead(2, TRUE)
Read4Ok == BusRead(4, TRUE)
Read2Failed == BusRead(2, FALSE)
Read4Failed == BusRead(4, FALSE)

\* A step in which the cache is read: the test made by the setup, or the
\* read of async_update that follows its update.
ReaderStep ==
    \/ pc = "check" /\ pc' = "returned"
    \/ \E e \in SENSOR_TYPES : tpc[e] = "state" /\ tpc'[e] = "idle"

\* C13: reading the cached value makes no bus transaction and changes
\* neither the cache nor the driver's record, also after reads have failed.
C13_ReadingCacheIsPure ==
    [][ ReaderStep =>
           /\ sensor_data' = sensor_data
           /\ data' = data
           /\ log' = log
           /\ plog' = plog ]_vars

\* An entity is about to read the cache that the setup filled, while the
\* other entity's latest update failed on the bus.
C13_Witness ==
    \E e, o \in SENSOR_TYPES :
        /\ tpc[e] = "state"
        /\ tpc[o] = "idle" /\ plog[o] = <<Read2Failed>>
        /\ IsFloat(sensor_data.voltage) /\ IsFloat(sensor_data.capacity)

\* C14: a periodic refresh reads register 2 and then register 4 of the
\* configured address, once each: nothing is read before register 2, nothing
\* is read twice, and after a failed read nothing more is read.
C14_TwoReadsInOrder ==
    \A e \in SENSOR_TYPES :
        /\ \A i \in 1..Len(plog[e]) : plog[e][i].addr = DEFAULT_I2C_ADDRESS
        /\ tpc[e] = "read2" => plog[e] = <<>>
        /\ tpc[e] = "read4" => plog[e] = <<Read2Ok>>
        /\ tpc[e] \in {"copy_v", "copy_c", "state"} => plog[e] = <<Read2Ok, Read4Ok>>
        /\ tpc[e] = "idle" =>
              plog[e] \in {<<>>, <<Read2Failed>>, <<Read2Ok, Read4Failed>>,
                           <<Read2Ok, Read4Ok>>}

C14_Witness ==
    \E e, o \in SENSOR_TYPES :
        /\ tpc[e] = "idle" /\ plog[e] = <<Read2Ok, Read4Ok>>
        /\ tpc[o] = "idle" /\ plog[o] = <<Read2Failed>>

\* C15: whatever refreshes failed before, a refresh whose two reads succeed
\* ends with the cache holding the conversions of its own two words
\* (callers take turns).
C15_SuccessAfterFailureRefreshes ==
    [][ \A e \in SENSOR_TYPES :
           (tpc[e] = "copy_c" /\ tpc'[e] = "state") =>
              /\ sensor_data' = mine[e]
              /\ IsFloat(sensor_data'.voltage) /\ IsFloat(sensor_data'.capacity) ]_vars

\* A refresh has just replaced the cache with its own pair, after the other
\* entity's latest refresh failed on its register-4 read.
C15_Witness ==
    \E e, o \in SENSOR_TYPES :
        /\ tpc[e] = "state"
        /\ sensor_data = mine[e]
        /\ sensor_data # prevCache
        /\ tpc[o] = "idle" /\ plog[o] = <<Read2Ok, Read4Failed>>

\* C16: entities exist only with both cached values set, and whenever a poll
\* reads the cache for rounding both cached values are numbers.
C16_PollNeverRoundsNone ==
    /\ entities # {} =>
          IsFloat(sensor_data.voltage) /\ IsFloat(sensor_data.capacity)
    /\ \A e \in SENSOR_TYPES : tpc[e] = "state" =>
          IsFloat(sensor_data.voltage) /\ IsFloat(sensor_data.capacity)

C16_Witness ==
    /\ tpc[SENSOR_VOLTAGE] = "state"
    /\ tpc[SENSOR_CAPACITY] = "state"
    /\ sensor_data.voltage = Float(0, 1)

Abs(x) == IF x < 0 THEN -x ELSE x

\* s is a whole number of tenths and no further than 0.05 from x.
NearestTenth(s, x) ==
    /\ IsFloat(s)
    /\ 10 % s.den = 0
    /\ Abs(s.num * x.den - x.num * s.den) * 20 <= s.den * x.den

\* C17: a poll whose refresh fails on the bus leaves every _state as it
\* was; a poll whose refresh succeeds sets its own _state to the cached value
\* of its own type rounded to one decimal and leaves the other entity's.
C17_StateFollowsOwnValue ==
    [][ \A e \in SENSOR_TYPES :
           /\ (tpc[e] \in {"read2", "read4"} /\ tpc'[e] = "idle") => state' = state
           /\ (tpc[e] = "state" /\ tpc'[e] = "idle") =>
                 /\ NearestTenth(state'[e], sensor_data[e])
                 /\ \A o \in SENSOR_TYPES \ {e} : state'[o] = state[o] ]_vars

\* An entity shows 0.2, rounded from an earlier 0.25, after its latest
\* refresh failed; the other entity has no state yet.
C17_Witness ==
    /\ tpc[SENSOR_VOLTAGE] = "idle"
    /\ plog[SENSOR_VOLTAGE] = <<Read2Ok, Read4Failed>>
    /\ state[SENSOR_VOLTAGE] = [tag |-> "float", num |-> 1, den |-> 5]
    /\ state[SENSOR_CAPACITY] = None

\* C18: with callers taking turns, the cache changes only in the two copy
\* steps of an update whose two reads succeeded, and holds that update's pair
\* once both copies are made; up to the second-to-last copy of a running
\* update it is what it was when that update was entered.
C18_CacheHoldsLastGoodPair ==
    /\ [](\A e \in SENSOR_TYPES :
             /\ tpc[e] \in {"read2", "read4", "copy_v"} => sensor_data = prevCache
             /\ tpc[e] = "state" => sensor_data = mine[e])
    /\ [][ sensor_data' # sensor_data =>
              \/ \E e \in SENSOR_TYPES :
                    /\ plog[e] = <<Read2Ok, Read4Ok>>
                    /\ \/ /\ tpc[e] = "copy_v"
                          /\ sensor_data' = [sensor_data EXCEPT !.voltage = mine[e].voltage]
                       \/ /\ tpc[e] = "copy_c"
                          /\ sensor_data' = mine[e]
              \/ /\ Len(log) = 6 /\ ~HasFail
                 /\ \/ /\ pc = "copy_v"
                       /\ sensor_data' = [sensor_data EXCEPT !.voltage = mine["setup"].voltage]
                    \/ /\ pc = "copy_c"
                       /\ sensor_data' = mine["setup"] ]_vars

\* After a refresh whose register-4 read failed, the driver's record pairs a
\* newer voltage with the older capacity while the cache keeps its pair.
C18_Witness ==
    \E e \in SENSOR_TYPES :
        /\ AllIdle
        /\ plog[e] = <<Read2Ok, Read4Failed>>
        /\ data.voltage # sensor_data.voltage
        /\ data.capacity = sensor_data.capacity
        /\ sensor_data = prevCache

====
